---- MODULE Spec2Model ----
(***************************************************************************)
(* WifiManager (src/wifi_manager.py): the station-connect state machine,   *)
(* the credential store and the captive-portal accept loop.                *)
(*                                                                         *)
(* Strings are sequences of character codes (<<65>> is "A"), so that       *)
(* chr(), strip(), split() and format() are computed, not assumed.         *)
(***************************************************************************)
EXTENDS Integers, Sequences, FiniteSets, TLC

VARIABLES
    pc,            \* position of the single thread of control
    calls,         \* number of connect() calls made so far
    result,        \* how the last connect() call ended
    file,          \* contents of wifi.dat (NoFile when it cannot be opened)
    profiles,      \* connect(): local `profiles`
    scanned,       \* connect(): what wlan_sta.scan() returned in this cycle
    scanIdx,       \* connect(): number of scan entries already consumed
    staJoins,      \* joins issued by the station phase of this cycle
    staConnected,  \* wlan_sta.isconnected()
    pending,       \* the join the radio is working on (NoJoin when none)
    linkEta,       \* sleeps left until the pending join comes up
    apActive,      \* wlan_ap.active()
    caller,        \* who called _wifi_connect: "sta" or "cfg"
    cur,           \* _wifi_connect: its (ssid, password) arguments
    polls,         \* _wifi_connect: isconnected() polls made by this call
    try,           \* _wifi_connect: outcome of the most recent call
    client,        \* state of self.client
    request,       \* self.request
    script,        \* what the accepted client still has to send
    accepts,       \* connections accepted by this cycle's portal session
    conn,          \* this connection: handler run, status sent, reads after the
                   \* terminator, join issued, store written, link up ever since
    portal,        \* how the portal session of this cycle stands
    ops,           \* whether connect() has read the store and scanned in this cycle
    cfgSaved,      \* last configure submission whose join succeeded
    envRefused,    \* the radio let a correctly keyed join of this cycle's station
                   \* phase come up too late, or dropped the link while it was polled
    st_pc,         \* store harness: position
    st_in,         \* store harness: the mapping handed to _write_profiles
    st_out,        \* store harness: what _read_profiles produced
    ctor,          \* constructor harness: the call of WifiManager(ssid, password)
    dec            \* decoding harness: a form field and what it decodes to

machineVars == <<pc, calls, result, profiles, scanned, scanIdx, staJoins,
                 staConnected, pending, linkEta, apActive, caller, cur, polls,
                 try, client, request, script, accepts, conn, portal, ops,
                 cfgSaved, envRefused>>
storeVars == <<st_pc, st_in, st_out>>
harnessVars == <<storeVars, ctor, dec>>
vars == <<machineVars, file, harnessVars>>

(***************************************************************************)
(* Characters                                                              *)
(***************************************************************************)
NL == 10
SP == 32
PCT == 37
PLUS == 43
SEMI == 59

\* str.strip() with no argument removes ASCII whitespace.
IsSpace(c) == c \in {9, 10, 11, 12, 13, SP}

Min(S) == CHOOSE m \in S : \A n \in S : m <= n
Max(S) == CHOOSE m \in S : \A n \in S : n <= m

\* index of the first c in s, 0 when there is none
IndexOf(s, c) ==
    LET hits == {i \in 1..Len(s) : s[i] = c}
    IN  IF hits = {} THEN 0 ELSE Min(hits)

\* str.strip()
strip(s) ==
    LET keep == {i \in 1..Len(s) : ~IsSpace(s[i])}
    IN  IF keep = {} THEN <<>> ELSE SubSeq(s, Min(keep), Max(keep))

\* str.split(d): always at least one field
RECURSIVE split(_, _)
split(s, d) ==
    LET k == IndexOf(s, d)
    IN  IF k = 0 THEN <<s>>
        ELSE <<SubSeq(s, 1, k - 1)>> \o split(SubSeq(s, k + 1, Len(s)), d)

\* file.readlines(): every line keeps its terminating newline
RECURSIVE readlines(_)
readlines(s) ==
    LET k == IndexOf(s, NL)
    IN  IF s = <<>> THEN <<>>
        ELSE IF k = 0 THEN <<s>>
        ELSE <<SubSeq(s, 1, k)>> \o readlines(SubSeq(s, k + 1, Len(s)))

RECURSIVE join(_)
join(ss) == IF ss = <<>> THEN <<>> ELSE Head(ss) \o join(Tail(ss))

(***************************************************************************)
(* Credential store                                                        *)
(***************************************************************************)
\* wifi.dat: open() raises OSError when it does not exist
NoFile == [exists |-> FALSE, data |-> <<>>]
File(data) == [exists |-> TRUE, data |-> data]
EmptyMap == [k \in {} |-> <<>>]

\* '{0};{1}\n'.format(ssid, password)
FormatLine(ssid, password) == ssid \o <<SEMI>> \o password \o <<NL>>

\* the orders in which a dict's items() may come out
Orders(S) == {o \in [1..Cardinality(S) -> S] : \A k \in S : \E i \in DOMAIN o : o[i] = k}

\* _write_profiles: the whole file is replaced by one line per item
_write_profiles(p, order) ==
    join([i \in DOMAIN order |-> FormatLine(order[i], p[order[i]])])

\* ssid, password = line.strip().split(';') needs exactly two fields
Fields(line) == split(strip(line), SEMI)

\* _read_profiles: an unopenable file is an empty list of lines; a line that
\* does not unpack into two fields raises ValueError out of the method.
_read_profiles(f) ==
    LET lines == IF f.exists THEN readlines(f.data) ELSE <<>>
        bad == \E i \in DOMAIN lines : Len(Fields(lines[i])) # 2
        keys == {Fields(lines[i])[1] : i \in DOMAIN lines}
        last(k) == Max({i \in DOMAIN lines : Fields(lines[i])[1] = k})
    IN  IF bad THEN [raised |-> TRUE, profiles |-> EmptyMap]
        ELSE [raised |-> FALSE,
              profiles |-> [k \in keys |-> Fields(lines[last(k)])[2]]]

\* profiles[ssid] = password
Put(p, ssid, password) ==
    [k \in DOMAIN p \cup {ssid} |-> IF k = ssid THEN password ELSE p[k]]

(***************************************************************************)
(* Bounds and inputs                                                       *)
(***************************************************************************)
MaxCalls == 2       \* connect() calls in one run
MaxScan == 2        \* entries in one scan result
MaxClients == 2     \* connections one portal session accepts
MaxEntries == 2     \* entries of a mapping handed to the store harness

\* for _ in range(100)
PollCeiling == 100
Never == -1

sA == <<65>>
sB == <<66>>
sC == <<67>>
\* "password", "secret1 " (ends in a space) and "pass;wrd"
PwA == <<112, 97, 115, 115, 119, 111, 114, 100>>
PwB == <<115, 101, 99, 114, 101, 116, 49, SP>>
PwC == <<112, 97, 115, 115, SEMI, 119, 114, 100>>

\* the networks on the air and the secret each one accepts
TrueSecret == (sA :> PwA) @@ (sB :> PwB) @@ (sC :> PwC)
Names == DOMAIN TrueSecret

RECURSIVE SeqsUpTo(_, _)
SeqsUpTo(S, n) ==
    IF n = 0 THEN {<<>>}
    ELSE LET shorter == SeqsUpTo(S, n - 1)
         IN  shorter \cup {Append(q, x) : q \in {r \in shorter : Len(r) = n - 1}, x \in S}

\* wlan_sta.scan(): the visible names, in the driver's order, repeats allowed
ScanResults == SeqsUpTo(Names, MaxScan)

\* wifi.dat as found at start-up
FileA == FormatLine(sA, PwA)
FileAWrong == FormatLine(sA, PwB) \o FormatLine(sB, PwA)
FileNoDelimiter == sA \o <<NL>>
FileTwoDelimiters == sA \o <<SEMI>> \o PwA \o <<SEMI>> \o PwA \o <<NL>>
FileBlankLine == FileA \o <<NL>>
GoodFiles == {NoFile, File(<<>>), File(FileA), File(FileAWrong)}
BadFiles == {File(FileNoDelimiter), File(FileTwoDelimiters), File(FileBlankLine)}
InitFiles == GoodFiles \cup BadFiles

\* a file the load cannot unpack: some line is blank or has not exactly one ';'
Delimiters(line) == Cardinality({i \in 1..Len(line) : line[i] = SEMI})
Malformed(f) ==
    /\ f.exists
    /\ \E i \in DOMAIN readlines(f.data) :
           \/ strip(readlines(f.data)[i]) = <<>>
           \/ Delimiters(readlines(f.data)[i]) # 1

(***************************************************************************)
(* Radio (network.WLAN) as the program sees it                             *)
(***************************************************************************)
NoJoin == [none |-> TRUE]
Creds(ssid, password) == [ssid |-> ssid, password |-> password]

Valid(ssid, password) == ssid \in DOMAIN TrueSecret /\ TrueSecret[ssid] = password

\* after how many sleeps of the caller the link comes up
ConnectDelays == {0, PollCeiling - 1, PollCeiling}
Etas(ssid, password) == IF Valid(ssid, password) THEN ConnectDelays ELSE {Never}

\* wlan_sta.connect(ssid, password), accepted by the driver
RadioJoin(ssid, password, eta) ==
    /\ pending' = Creds(ssid, password)
    /\ linkEta' = eta
    /\ staConnected' = (eta = 0)

RadioDisconnect_Skipped == UNCHANGED <<pending, linkEta, staConnected>>

\* wlan_sta.disconnect(): the link is down and no join is pending
RadioDisconnect ==
    /\ pending' = NoJoin
    /\ linkEta' = Never
    /\ staConnected' = FALSE

radioVars == <<staConnected, pending, linkEta>>
tryVars == <<caller, cur, polls, try>>
clientVars == <<client, request, script, accepts, conn>>
cycleVars == <<profiles, scanned, scanIdx, staJoins, ops>>

NoTry == [joins |-> 0, outcome |-> "none"]
NoConn == [handler |-> "none", status |-> 0, extra |-> 0, joined |-> FALSE,
           saved |-> FALSE, up |-> FALSE]
NoScript == [chunks |-> <<>>, tail |-> "timeout"]
NoCfg == [none |-> TRUE]
NoOps == [read |-> FALSE, scan |-> FALSE]
NoLoad == [raised |-> FALSE, profiles |-> EmptyMap]
NoCtor == [pc |-> "off", ssid |-> 0, password |-> 0, radio |-> <<>>]
NoDec == [pc |-> "off", uri |-> <<>>, raised |-> FALSE, value |-> <<>>, ssid |-> <<>>]

\* the machine right after WifiManager() has been constructed
MachineInit ==
    /\ pc = "idle"
    /\ calls = 0
    /\ result = "none"
    /\ profiles = EmptyMap
    /\ scanned = <<>>
    /\ scanIdx = 0
    /\ staJoins = <<>>
    /\ staConnected = FALSE
    /\ pending = NoJoin
    /\ linkEta = Never
    /\ apActive = FALSE
    /\ caller = "none"
    /\ cur = Creds(<<>>, <<>>)
    /\ polls = 0
    /\ try = NoTry
    /\ client = "none"
    /\ request = <<>>
    /\ script = NoScript
    /\ accepts = 0
    /\ conn = NoConn
    /\ portal = "off"
    /\ ops = NoOps
    /\ cfgSaved = NoCfg
    /\ envRefused = FALSE

Init ==
    /\ MachineInit
    /\ file \in InitFiles
    /\ st_pc = "off"
    /\ st_in = EmptyMap
    /\ st_out = NoLoad
    /\ ctor = NoCtor
    /\ dec = NoDec

(***************************************************************************)
(* connect(): station phase                                                *)
(***************************************************************************)
AlreadyConnected_Never == FALSE

\* connect(), line 49: if self.wlan_sta.isconnected()
AlreadyConnected == staConnected

\* connect(), lines 48-52: return at once when connected, otherwise load
\* the store and scan.  A ValueError of the load leaves connect().
\* The locals of the previous call, and self.client and self.request of
\* its portal session, are never read again: the call starts from a clean
\* record of what this cycle has done.
ConnectCall ==
    /\ pc = "idle"
    /\ calls < MaxCalls
    /\ calls' = calls + 1
    /\ staJoins' = <<>>
    /\ scanIdx' = 0
    /\ portal' = "off"
    /\ envRefused' = FALSE
    /\ caller' = "none"
    /\ cur' = Creds(<<>>, <<>>)
    /\ polls' = 0
    /\ try' = NoTry
    /\ client' = "none"
    /\ request' = <<>>
    /\ script' = NoScript
    /\ accepts' = 0
    /\ conn' = NoConn
    /\ UNCHANGED <<file, harnessVars, radioVars, apActive, cfgSaved>>
    /\ IF AlreadyConnected
       THEN /\ result' = "returned"
            /\ pc' = "idle"
            /\ ops' = NoOps
            /\ profiles' = EmptyMap
            /\ scanned' = <<>>
       ELSE LET r == _read_profiles(file)
            IN  IF r.raised
                THEN /\ result' = "raised"
                     /\ pc' = "idle"
                     /\ ops' = [read |-> TRUE, scan |-> FALSE]
                     /\ profiles' = EmptyMap
                     /\ scanned' = <<>>
                ELSE /\ result' = "none"
                     /\ pc' = "sta_loop"
                     /\ ops' = [read |-> TRUE, scan |-> TRUE]
                     /\ profiles' = r.profiles
                     /\ scanned' \in ScanResults

StaAfterTry_KeepGoing(ok) ==
    /\ pc' = "sta_loop"
    /\ result' = result

StoredSecret_Name(ssid) == ssid

\* line 55: password = profiles[ssid]
StoredSecret(ssid) == profiles[ssid]

\* line 52: the entry the loop over the scan result is at
NextEntry == scanned[scanIdx + 1]

\* what the caller of _wifi_connect does with its result in the station
\* phase: True returns from connect(), False goes on with the next entry
\* (lines 56-57)
StaAfterTry(ok) ==
    /\ pc' = IF ok THEN "idle" ELSE "sta_loop"
    /\ result' = IF ok THEN "returned" ELSE result

\* connect(), lines 52-59: one iteration of the loop over the scan result.
\* An entry with a stored secret starts _wifi_connect (line 100 issues the
\* join, which the driver may refuse with an OSError); the end of the list
\* starts the portal (lines 113-122); the locals of the station phase are
\* not used again and are forgotten there.
StaNext ==
    /\ pc = "sta_loop"
    /\ UNCHANGED <<calls, file, harnessVars, ops, clientVars, cfgSaved>>
    /\ IF scanIdx = Len(scanned)
       THEN /\ apActive' = TRUE
            /\ portal' = "running"
            /\ pc' = "portal"
            /\ profiles' = EmptyMap
            /\ scanned' = <<>>
            /\ scanIdx' = 0
            /\ staJoins' = <<>>
            /\ envRefused' = FALSE
            /\ caller' = "none"
            /\ cur' = Creds(<<>>, <<>>)
            /\ polls' = 0
            /\ try' = NoTry
            /\ UNCHANGED <<result, radioVars>>
       ELSE LET ssid == NextEntry
            IN  /\ scanIdx' = scanIdx + 1
                /\ UNCHANGED <<profiles, scanned, apActive, portal>>
                /\ IF ssid \in DOMAIN profiles
                   THEN LET password == StoredSecret(ssid)
                        IN  /\ staJoins' = Append(staJoins, Creds(ssid, password))
                            /\ caller' = "sta"
                            /\ cur' = Creds(ssid, password)
                            /\ polls' = 0
                            /\ \/ /\ \E eta \in Etas(ssid, password) :
                                        /\ RadioJoin(ssid, password, eta)
                                        /\ envRefused' = (envRefused \/ eta >= PollCeiling)
                                  /\ try' = [joins |-> 1, outcome |-> "running"]
                                  /\ pc' = "poll"
                                  /\ UNCHANGED result
                               \/ /\ try' = [joins |-> 1, outcome |-> "raised"]
                                  /\ pc' = "idle"
                                  /\ result' = "raised"
                                  /\ UNCHANGED <<radioVars, envRefused>>
                   ELSE /\ pc' = "sta_loop"
                        /\ UNCHANGED <<result, staJoins, radioVars, tryVars, envRefused>>

(***************************************************************************)
(* _wifi_connect(): the poll loop                                          *)
(***************************************************************************)
\* utime.sleep_ms(100): time passes and the pending join may come up
Sleep ==
    /\ linkEta' = IF linkEta > 0 THEN linkEta - 1 ELSE linkEta
    /\ staConnected' = (staConnected \/ linkEta = 1)
    /\ UNCHANGED pending

\* lines 101-107, a poll that finds the link down: sleep and poll again
PollSleep ==
    /\ pc = "poll"
    /\ polls < PollCeiling
    /\ ~staConnected
    /\ polls' = polls + 1
    /\ Sleep
    /\ UNCHANGED <<pc, calls, result, file, harnessVars, cycleVars, apActive,
                   caller, cur, try, clientVars, portal, cfgSaved, envRefused>>

\* lines 102-104 in the station phase: the poll finds the link up,
\* _wifi_connect returns True and connect() returns
PollConnectedSta ==
    /\ pc = "poll"
    /\ caller = "sta"
    /\ polls < PollCeiling
    /\ staConnected
    /\ polls' = polls + 1
    /\ try' = [try EXCEPT !.outcome = "ok"]
    /\ StaAfterTry(TRUE)
    /\ UNCHANGED <<calls, file, harnessVars, cycleVars, radioVars, apActive,
                   caller, cur, clientVars, portal, cfgSaved, envRefused>>

\* lines 108-110 in the station phase: all polls used up, disconnect and
\* return False; connect() goes on with the next scan entry
PollExhaustedSta ==
    /\ pc = "poll"
    /\ caller = "sta"
    /\ polls = PollCeiling
    /\ RadioDisconnect
    /\ try' = [try EXCEPT !.outcome = "fail"]
    /\ StaAfterTry(FALSE)
    /\ UNCHANGED <<calls, file, harnessVars, cycleVars, apActive, caller, cur,
                   polls, clientVars, portal, cfgSaved, envRefused>>

(***************************************************************************)
(* The radio's own moves and the other public methods                      *)
(***************************************************************************)
\* the established link is lost; the driver keeps the join to reconnect
LinkDrop ==
    /\ staConnected
    /\ staConnected' = FALSE
    /\ conn' = [conn EXCEPT !.up = FALSE]
    /\ envRefused' = (envRefused \/ (pc = "poll" /\ caller = "sta"))
    /\ UNCHANGED <<pc, calls, result, file, harnessVars, cycleVars, pending,
                   linkEta, apActive, tryVars, client, request, script,
                   accepts, portal, cfgSaved>>

\* the driver re-establishes a link it had lost
Reconnect ==
    /\ ~staConnected
    /\ pending # NoJoin
    /\ linkEta = 0
    /\ staConnected' = TRUE
    /\ UNCHANGED <<pc, calls, result, file, harnessVars, cycleVars, pending,
                   linkEta, apActive, tryVars, clientVars, portal, cfgSaved,
                   envRefused>>

\* disconnect(), lines 61-63
Disconnect ==
    /\ pc = "idle"
    /\ staConnected
    /\ RadioDisconnect
    /\ UNCHANGED <<pc, calls, result, file, harnessVars, cycleVars, apActive,
                   tryVars, clientVars, portal, cfgSaved, envRefused>>

(***************************************************************************)
(* Requests and percent-decoding                                           *)
(***************************************************************************)
\* self.request is kept as the sequence of the pieces the two patterns of
\* the program look for: a request line (with the path the first pattern
\* extracts, query and trailing '/' removed), the header terminator
\* '\r\n\r\n', a form body 'ssid=<v>&password=<v>' and other bytes.
ReqLine(url) == [t |-> "line", url |-> url, ssid |-> <<>>, password |-> <<>>]
Term == [t |-> "term", url |-> "", ssid |-> <<>>, password |-> <<>>]
Form(ssid, password) == [t |-> "form", url |-> "", ssid |-> ssid, password |-> password]
Junk == [t |-> "junk", url |-> "", ssid |-> <<>>, password |-> <<>>]

Has(req, t) == \E i \in DOMAIN req : req[i].t = t
First(req, t) == req[Min({i \in DOMAIN req : req[i].t = t})]

\* value of one hexadecimal digit, -1 for any other character
HexDigit(c) ==
    IF c \in 48..57 THEN c - 48
    ELSE IF c \in 65..70 THEN c - 55
    ELSE IF c \in 97..102 THEN c - 87
    ELSE -1

NoInt == -1000

\* int(x, 16) for the at most two characters x of an escape: surrounding
\* whitespace and a sign are accepted; NoInt stands for ValueError
IntHex(x) ==
    LET y == strip(x)
    IN  IF Len(y) = 0 THEN NoInt
        ELSE IF Len(y) = 1
             THEN IF HexDigit(y[1]) >= 0 THEN HexDigit(y[1]) ELSE NoInt
        ELSE IF HexDigit(y[1]) >= 0 /\ HexDigit(y[2]) >= 0
             THEN 16 * HexDigit(y[1]) + HexDigit(y[2])
        ELSE IF y[1] = PLUS /\ HexDigit(y[2]) >= 0 THEN HexDigit(y[2])
        ELSE IF y[1] = 45 /\ HexDigit(y[2]) >= 0 THEN 0 - HexDigit(y[2])
        ELSE NoInt

Take(s, n) == SubSeq(s, 1, IF Len(s) < n THEN Len(s) ELSE n)
Drop(s, n) == SubSeq(s, n + 1, Len(s))

DecodeSegment_KeepDigits(seg) ==
    LET n == IntHex(Take(seg, 2))
    IN  IF n < 0 THEN [raised |-> TRUE, value |-> <<>>]
        ELSE [raised |-> FALSE, value |-> <<n>> \o seg]

\* chr(int(seg[:2], 16)) + seg[2:]; chr() of a negative number raises too
DecodeSegment(seg) ==
    LET n == IntHex(Take(seg, 2))
    IN  IF n < 0 THEN [raised |-> TRUE, value |-> <<>>]
        ELSE [raised |-> FALSE, value |-> <<n>> \o Drop(seg, 2)]

\* _decode_uri, lines 266-273: len(_uri[0]) >= 0 always holds, so the
\* first branch is the one taken
_decode_uri(uri) ==
    LET _uri == split(uri, PCT)
        segs == [i \in 1..(Len(_uri) - 1) |-> DecodeSegment(_uri[i + 1])]
    IN  IF \E i \in DOMAIN segs : segs[i].raised
        THEN [raised |-> TRUE, value |-> <<>>]
        ELSE [raised |-> FALSE,
              value |-> _uri[1] \o join([i \in DOMAIN segs |-> segs[i].value])]

\* str.replace('+', ' ')
PlusToSpace(s) == [i \in DOMAIN s |-> IF s[i] = PLUS THEN SP ELSE s[i]]

\* the form fields a client may submit, as they travel on the wire
RawEmpty == <<>>
RawA == sA
RawB == <<PCT, 52, 50>>
RawPwA == PwA
RawPwB == <<115, 101, 99, 114, 101, 116, 49, PCT, 50, 48>>
RawC == sC
RawPwC == <<112, 97, 115, 115, PCT, 51, 66, 119, 114, 100>>
RawBadEscape == <<PCT>>
Forms == {Form(RawEmpty, RawPwA), Form(RawEmpty, RawBadEscape),
          Form(RawA, RawPwA), Form(RawB, RawPwB), Form(RawC, RawPwC),
          Form(RawA, RawPwB)}

\* what a client does on its connection: the chunks successive recv()
\* calls return, and what recv() does once they are used up (a timeout,
\* or b'' for ever when the peer has closed its side)
Script(chunks, tail) == [chunks |-> chunks, tail |-> tail]
ClientScripts ==
    {Script(<<>>, "timeout"), Script(<<>>, "eof"),
     Script(<< <<Junk>> >>, "timeout"),
     Script(<< <<ReqLine("")>> >>, "timeout"),
     Script(<< <<Junk, Term>> >>, "timeout"),
     Script(<< <<ReqLine(""), Term>> >>, "timeout"),
     Script(<< <<ReqLine("favicon.ico"), Term>> >>, "eof"),
     Script(<< <<ReqLine("configure"), Term>> >>, "timeout"),
     Script(<< <<ReqLine("configure"), Term>>, <<Form(RawA, RawPwA)>> >>, "timeout")}
    \cup {Script(<< <<ReqLine("configure"), Term, f>> >>, "timeout") : f \in Forms}

(***************************************************************************)
(* _web_server(): the portal loop                                          *)
(***************************************************************************)
ClientClose_Leaked == client' = client

\* line 160 (and line 207 before it): self.client.close()
ClientClose == client' = "closed"

PortalAbort_Continue(handler) ==
    /\ pc' = "portal"
    /\ result' = result
    /\ portal' = portal
    /\ ClientClose
    /\ conn' = [conn EXCEPT !.handler = handler]

\* lines 154-160: an exception inside the per-connection block is printed,
\* the client is closed and _web_server returns, so connect() returns too
PortalAbort(handler) ==
    /\ pc' = "idle"
    /\ result' = "returned"
    /\ portal' = "aborted"
    /\ ClientClose
    /\ conn' = [conn EXCEPT !.handler = handler]

\* _send_response, lines 168-207 (which closes the client), the pause of
\* the handler and the close of line 160; the loop goes back to line 123
Respond(handler, status) ==
    /\ conn' = [conn EXCEPT !.handler = handler, !.status = status]
    /\ ClientClose
    /\ pc' = "portal"
    /\ UNCHANGED <<result, portal>>

\* lines 124-130: the status check finds the link up; the access point is
\* switched off and the portal returns (self.reboot is False, line 46)
PortalExit ==
    /\ pc = "portal"
    /\ staConnected
    /\ apActive' = FALSE
    /\ pc' = "idle"
    /\ result' = "returned"
    /\ portal' = "connected"
    /\ UNCHANGED <<calls, file, harnessVars, cycleVars, radioVars, tryVars,
                   clientVars, cfgSaved, envRefused>>

\* lines 124, 131-134: the status check finds the link down; accept the
\* next client and start with an empty request
PortalAccept ==
    /\ pc = "portal"
    /\ ~staConnected
    /\ accepts < MaxClients
    /\ accepts' = accepts + 1
    /\ script' \in ClientScripts
    /\ client' = "open"
    /\ request' = <<>>
    /\ conn' = NoConn
    /\ caller' = "none"
    /\ cur' = Creds(<<>>, <<>>)
    /\ polls' = 0
    /\ try' = NoTry
    /\ pc' = "recv"
    /\ UNCHANGED <<calls, result, file, harnessVars, cycleVars, radioVars,
                   apActive, portal, cfgSaved, envRefused>>

\* lines 135-144, one recv(): after the terminator has been seen one more
\* read is made and the loop is left; a timeout (OSError) leaves the loop;
\* anything else, b'' included, is appended and the loop goes on
Recv ==
    /\ pc = "recv"
    /\ LET more == script.chunks # <<>>
           timeout == ~more /\ script.tail = "timeout"
           data == IF more THEN Head(script.chunks) ELSE <<>>
           seen == Has(request, "term")
       IN  /\ request' = IF timeout THEN request ELSE request \o data
           /\ script' = IF more THEN [script EXCEPT !.chunks = Tail(@)] ELSE script
           /\ conn' = IF seen THEN [conn EXCEPT !.extra = @ + 1] ELSE conn
           /\ pc' = IF seen \/ timeout THEN "dispatch" ELSE "recv"
    /\ UNCHANGED <<calls, result, file, harnessVars, cycleVars, radioVars,
                   apActive, tryVars, client, accepts, portal, cfgSaved,
                   envRefused>>

\* _handle_configure up to the call of _wifi_connect, lines 235-243 and 100
HandleConfigure ==
    IF ~Has(request, "form")
    THEN Respond("configure", 400) /\ UNCHANGED <<radioVars, tryVars>>
    ELSE LET f == First(request, "form")
             ssid == _decode_uri(PlusToSpace(f.ssid))
             password == _decode_uri(f.password)
         IN  IF ssid.raised \/ password.raised
             THEN PortalAbort("configure") /\ UNCHANGED <<radioVars, tryVars>>
             ELSE IF Len(ssid.value) = 0
             THEN Respond("configure", 400) /\ UNCHANGED <<radioVars, tryVars>>
             ELSE /\ caller' = "cfg"
                  /\ cur' = Creds(ssid.value, password.value)
                  /\ polls' = 0
                  /\ \/ /\ \E eta \in Etas(ssid.value, password.value) :
                              RadioJoin(ssid.value, password.value, eta)
                        /\ try' = [joins |-> 1, outcome |-> "running"]
                        /\ conn' = [conn EXCEPT !.handler = "configure", !.joined = TRUE]
                        /\ pc' = "poll"
                        /\ UNCHANGED <<result, portal, client>>
                     \/ /\ try' = [joins |-> 1, outcome |-> "raised"]
                        /\ PortalAbort("configure")
                        /\ UNCHANGED radioVars

\* lines 145-160: nothing received closes the client; otherwise the path
\* is extracted (no match raises) and the handler for it runs
Dispatch ==
    /\ pc = "dispatch"
    /\ UNCHANGED <<calls, file, harnessVars, cycleVars, apActive, request,
                   script, accepts, cfgSaved, envRefused>>
    /\ IF request = <<>>
       THEN /\ ClientClose
            /\ pc' = "portal"
            /\ UNCHANGED <<result, portal, conn, radioVars, tryVars>>
       ELSE IF ~Has(request, "line")
       THEN PortalAbort("none") /\ UNCHANGED <<radioVars, tryVars>>
       ELSE LET url == First(request, "line").url
            IN  IF url = ""
                THEN Respond("root", 200) /\ UNCHANGED <<radioVars, tryVars>>
                ELSE IF url = "configure"
                THEN HandleConfigure
                ELSE Respond("not_found", 404) /\ UNCHANGED <<radioVars, tryVars>>

\* lines 244-252: the join of a configure submission succeeded; the page
\* is sent, the store is loaded, updated and rewritten in full.  A
\* ValueError of the load is caught by line 154 and ends the portal.
PollConnectedCfg ==
    /\ pc = "poll"
    /\ caller = "cfg"
    /\ polls < PollCeiling
    /\ staConnected
    /\ polls' = polls + 1
    /\ try' = [try EXCEPT !.outcome = "ok"]
    /\ cfgSaved' = [ssid |-> cur.ssid, password |-> cur.password, call |-> calls]
    /\ LET r == _read_profiles(file)
           updated == Put(r.profiles, cur.ssid, cur.password)
       IN  IF r.raised
           THEN /\ pc' = "idle"
                /\ result' = "returned"
                /\ portal' = "aborted"
                /\ ClientClose
                /\ conn' = [conn EXCEPT !.status = 200, !.up = TRUE]
                /\ UNCHANGED file
           ELSE /\ \E order \in Orders(DOMAIN updated) :
                      file' = File(_write_profiles(updated, order))
                /\ conn' = [conn EXCEPT !.status = 200, !.saved = TRUE, !.up = TRUE]
                /\ ClientClose
                /\ pc' = "portal"
                /\ UNCHANGED <<result, portal>>
    /\ UNCHANGED <<calls, harnessVars, cycleVars, radioVars, apActive, caller,
                   cur, request, script, accepts, envRefused>>

\* lines 108-110 and 254-256: the join of a configure submission used up
\* all polls; disconnect, send the failure page, pause and go on serving
PollExhaustedCfg ==
    /\ pc = "poll"
    /\ caller = "cfg"
    /\ polls = PollCeiling
    /\ RadioDisconnect
    /\ try' = [try EXCEPT !.outcome = "fail"]
    /\ Respond("configure", 200)
    /\ UNCHANGED <<calls, file, harnessVars, cycleVars, apActive, caller, cur,
                   polls, request, script, accepts, cfgSaved, envRefused>>

(***************************************************************************)
(* Store harness: persist a mapping, load it back; load a file as found    *)
(***************************************************************************)
StoreNames == {sA, sB, <<65, 66>>, <<65, SP, 66>>}
StoreSecrets == {PwA, PwB, <<SP, 101, 99, 114, 101, 116, 49, 50>>,
                 <<112, 97, 115, 115, SP, 119, 114, 100>>}
StoreMaps ==
    UNION {[D -> StoreSecrets] : D \in {E \in SUBSET StoreNames : Cardinality(E) <= MaxEntries}}

InitStore ==
    /\ MachineInit
    /\ \/ st_pc = "persist" /\ st_in \in StoreMaps /\ file = NoFile
       \/ st_pc = "load" /\ st_in = EmptyMap /\ file \in InitFiles
    /\ st_out = NoLoad
    /\ ctor = NoCtor
    /\ dec = NoDec

\* _write_profiles(profiles), lines 78-83
Persist ==
    /\ st_pc = "persist"
    /\ \E order \in Orders(DOMAIN st_in) : file' = File(_write_profiles(st_in, order))
    /\ st_pc' = "written"
    /\ UNCHANGED <<machineVars, st_in, st_out, ctor, dec>>

\* _read_profiles(), lines 85-96
Load ==
    /\ st_pc \in {"written", "load"}
    /\ st_out' = _read_profiles(file)
    /\ st_pc' = IF st_pc = "written" THEN "reloaded" ELSE "loaded"
    /\ UNCHANGED <<machineVars, file, st_in, ctor, dec>>

NextStore == Persist \/ Load
SpecStore == InitStore /\ [][NextStore]_vars

(***************************************************************************)
(* Constructor harness: WifiManager(ssid, password)                        *)
(***************************************************************************)
\* lines 24 and 28: the longest ssid and the shortest password accepted
SsidLimit == 32
PasswordFloor == 8

\* only len() of the two arguments is read; 11 is the length of both defaults
SsidLens == 0..(SsidLimit + 2)
PasswordLens == 0..(PasswordFloor + 3)

\* lines 24-31: which of the two checks raises, if any
CtorRaises(ssid, password) == ssid > SsidLimit \/ password < PasswordFloor

\* what __init__ has done to the radio when the checks are reached (lines
\* 18-20) and what it does after them (line 42)
CtorBeforeChecks == <<"sta_handle", "sta_active", "ap_handle">>
CtorAfterChecks == <<"sta_disconnect">>

InitCtor ==
    /\ MachineInit
    /\ file = NoFile
    /\ st_pc = "off"
    /\ st_in = EmptyMap
    /\ st_out = NoLoad
    /\ dec = NoDec
    /\ \E ssid \in SsidLens, password \in PasswordLens :
          ctor = [pc |-> "called", ssid |-> ssid, password |-> password, radio |-> <<>>]

\* __init__, lines 17-46
Construct ==
    /\ ctor.pc = "called"
    /\ ctor' = IF CtorRaises(ctor.ssid, ctor.password)
               THEN [ctor EXCEPT !.pc = "raised", !.radio = CtorBeforeChecks]
               ELSE [ctor EXCEPT !.pc = "done",
                                 !.radio = CtorBeforeChecks \o CtorAfterChecks]
    /\ UNCHANGED <<machineVars, file, storeVars, dec>>

NextCtor == Construct
SpecCtor == InitCtor /\ [][NextCtor]_vars

(***************************************************************************)
(* Decoding harness: one form field through _decode_uri                    *)
(***************************************************************************)
MaxUri == 4         \* characters of a generated form field

\* 'a', '+', '%', '2', 'B', '0'
UriChars == {97, PLUS, PCT, 50, 66, 48}
\* "My%20Network", "a%2Bb" and "%41%42c"
RawMyNetwork == <<77, 121, PCT, 50, 48, 78, 101, 116, 119, 111, 114, 107>>
RawAPlusB == <<97, PCT, 50, 66, 98>>
RawTwoEscapes == <<PCT, 52, 49, PCT, 52, 50, 99>>
UriInputs == SeqsUpTo(UriChars, MaxUri) \cup {RawMyNetwork, RawAPlusB, RawTwoEscapes}

InitDecode ==
    /\ MachineInit
    /\ file = NoFile
    /\ st_pc = "off"
    /\ st_in = EmptyMap
    /\ st_out = NoLoad
    /\ ctor = NoCtor
    /\ \E uri \in UriInputs : dec = [NoDec EXCEPT !.pc = "given", !.uri = uri]

\* the field decoded as the password is (lines 238, 240) and as the ssid is
\* (lines 237, 239: '+' becomes a space before the escapes are decoded)
Decode ==
    /\ dec.pc = "given"
    /\ LET password == _decode_uri(dec.uri)
           ssid == _decode_uri(PlusToSpace(dec.uri))
       IN  dec' = [pc |-> "done", uri |-> dec.uri, raised |-> password.raised,
                   value |-> password.value, ssid |-> ssid.value]
    /\ UNCHANGED <<machineVars, file, storeVars, ctor>>

NextDecode == Decode
SpecDecode == InitDecode /\ [][NextDecode]_vars

(***************************************************************************)
(* Specification                                                           *)
(***************************************************************************)
Next ==
    \/ ConnectCall
    \/ StaNext
    \/ PollSleep
    \/ PollConnectedSta
    \/ PollExhaustedSta
    \/ PollConnectedCfg
    \/ PollExhaustedCfg
    \/ PortalExit
    \/ PortalAccept
    \/ Recv
    \/ Dispatch
    \/ LinkDrop
    \/ Reconnect
    \/ Disconnect

Spec == Init /\ [][Next]_vars

TypeOK ==
    /\ pc \in {"idle", "sta_loop", "poll", "portal", "recv", "dispatch"}
    /\ calls \in 0..MaxCalls
    /\ result \in {"none", "returned", "raised"}
    /\ polls \in 0..PollCeiling
    /\ accepts \in 0..MaxClients
    /\ client \in {"none", "open", "closed"}
    /\ portal \in {"off", "running", "connected", "aborted"}

(***************************************************************************)
(* Properties                                                              *)
(***************************************************************************)
Range(q) == {q[i] : i \in DOMAIN q}
Known(n) == n \in DOMAIN profiles
JoinNames == [i \in DOMAIN staJoins |-> staJoins[i].ssid]

\* C1: a connect() call made while the station link reports connected
\* returns at once: it does not read the store, scan, issue a join,
\* activate the access point or start the portal, and it changes neither
\* the store nor the radio.
C1_ConnectWhenConnectedIsNoOp ==
    [][(pc = "idle" /\ calls' = calls + 1 /\ staConnected)
         => /\ pc' = "idle"
            /\ result' = "returned"
            /\ ops' = NoOps
            /\ staJoins' = <<>>
            /\ try' = NoTry
            /\ portal' = "off"
            /\ accepts' = 0
            /\ file' = file
            /\ staConnected' = staConnected
            /\ pending' = pending
            /\ linkEta' = linkEta
            /\ apActive' = apActive]_vars

\* a connect() call has just returned although it did nothing: it was made
\* with the link up
C1_Witness ==
    /\ calls = 2
    /\ pc = "idle"
    /\ result = "returned"
    /\ ops = NoOps
    /\ staConnected
    /\ pending # NoJoin

\* C2: in the station phase the joins are issued in scan order (the names
\* joined so far are exactly the consumed scan entries that have a stored
\* secret, in that order), and the first _wifi_connect that succeeds ends
\* the cycle: no further join, no portal, connect() returns with the link
\* connected.
C2_ScanOrderFirstSuccessWins ==
    /\ [](JoinNames = SelectSeq(SubSeq(scanned, 1, scanIdx), Known))
    /\ []((pc = "idle" /\ caller = "sta" /\ try.outcome = "ok")
             => (result = "returned" /\ portal = "off"
                 /\ staJoins[Len(staJoins)] = cur))
    /\ [][(pc = "poll" /\ caller = "sta" /\ try.outcome = "running"
             /\ try'.outcome # "running")
            => IF try'.outcome = "ok"
               THEN /\ pc' = "idle"
                    /\ result' = "returned"
                    /\ staConnected'
                    /\ staJoins' = staJoins
                    /\ scanIdx' = scanIdx
                    /\ portal' = "off"
                    /\ apActive' = apActive
               ELSE pc' = "sta_loop" /\ staJoins' = staJoins]_vars

\* the first attempt succeeded and connect() returned while a later scan
\* entry with a stored secret was left untried
C2_Witness ==
    /\ pc = "idle"
    /\ caller = "sta"
    /\ try.outcome = "ok"
    /\ result = "returned"
    /\ Len(staJoins) = 1
    /\ scanIdx < Len(scanned)
    /\ Known(scanned[scanIdx + 1])

\* C3: every join of the station phase is for a name that is in the scan
\* result and a key of the loaded store, and carries the secret stored for
\* that name; while such a join is being polled it is the radio's pending
\* join.
C3_JoinsOnlyKnownVisible ==
    /\ \A i \in DOMAIN staJoins :
          /\ staJoins[i].ssid \in Range(scanned)
          /\ staJoins[i].ssid \in DOMAIN profiles
          /\ staJoins[i].password = profiles[staJoins[i].ssid]
    /\ (pc = "poll" /\ caller = "sta")
          => /\ staJoins # <<>>
             /\ cur = staJoins[Len(staJoins)]
             /\ pending = cur

\* scan result [A, B], store holding only B: the loop is through, B was
\* attempted and A was not
C3_Witness ==
    /\ scanned = <<sA, sB>>
    /\ DOMAIN profiles = {sB}
    /\ scanIdx = 2
    /\ JoinNames = <<sB>>

\* C5: a _wifi_connect call issues one join, polls at most PollCeiling
\* times, returns True at the first poll that finds the link up, and after
\* the last poll disconnects before returning False: whenever it has
\* returned False the link is down and no join is pending.
C5_BoundedPollCleanFailure ==
    /\ [](/\ polls \in 0..PollCeiling
          /\ try.outcome # "none" => try.joins = 1
          /\ try.outcome = "running" => (pc = "poll" /\ pending = cur)
          /\ try.outcome = "fail"
                => (polls = PollCeiling /\ ~staConnected /\ pending = NoJoin))
    /\ [][(pc = "poll" /\ polls' = polls + 1)
            => (try'.outcome = "ok") = staConnected]_vars
    /\ [][(try.outcome = "running" /\ try'.outcome = "fail")
            => (polls = PollCeiling /\ polls' = polls)]_vars

\* a call has used up all its polls and returned False
C5_Witness ==
    /\ try.outcome = "fail"
    /\ polls = PollCeiling
    /\ pc \in {"sta_loop", "portal"}

\* the configure submission this connection carried, as _handle_configure
\* sees it
IsConfigure(req) ==
    /\ Has(req, "line")
    /\ First(req, "line").url = "configure"
    /\ Has(req, "form")
SubmittedSsid(req) == _decode_uri(PlusToSpace(First(req, "form").ssid))
SubmittedPassword(req) == _decode_uri(First(req, "form").password)

\* this cycle was started after the last successful configure submission
PostCfg == cfgSaved # NoCfg /\ calls > cfgSaved.call

\* C4: a connect() call that found the link down and whose station phase
\* did not succeed starts the portal, and returns only when the portal saw
\* the link up or when the portal gave up, which the caller can tell from
\* a successful connection.
C4_PortalOnFailureSurfaced ==
    (pc = "idle" /\ calls > 0 /\ ops.read)
       => \/ /\ portal = "off"
             /\ caller = "sta"
             /\ try.outcome = "ok"
             /\ result = "returned"
          \/ portal = "connected" /\ result = "returned"
          \/ portal = "aborted" /\ result = "raised"

\* C6: the portal checks the link before every accept and, once a check
\* finds it up, switches the access point off and returns without another
\* accept; after a configure submission whose join succeeded, with the
\* link up ever since, no client is accepted and the portal has exited
\* only with the access point inactive.
C6_PortalLeavesOnceConnected ==
    /\ [][(pc = "portal" /\ pc' # "portal")
            => IF staConnected
               THEN ~apActive' /\ pc' = "idle" /\ accepts' = accepts
               ELSE accepts' = accepts + 1]_vars
    /\ [][(conn.up /\ pc # "idle") => accepts' = accepts]_vars
    /\ []((conn.up /\ pc = "idle") => (portal = "connected" /\ ~apActive))

\* C7: after a configure submission whose join succeeded the file holds a
\* line for the submitted credential, and a later connect() cycle in which
\* that network is visible and accepts that secret neither fails to load
\* the store nor gets to the end of the scan without a connection.
C7_SavedCredentialReconnects ==
    /\ (conn.saved /\ pc = "portal")
          => FormatLine(cur.ssid, cur.password) \in Range(readlines(file.data))
    /\ PostCfg
          => /\ ~(pc = "idle" /\ result = "raised" /\ ~ops.scan)
             /\ ~(/\ pc = "sta_loop"
                  /\ scanIdx = Len(scanned)
                  /\ cfgSaved.ssid \in Range(scanned)
                  /\ Valid(cfgSaved.ssid, cfgSaved.password)
                  /\ ~envRefused)

\* C8: a configure submission whose decoded ssid is empty is answered with
\* status 400, issues no join and leaves the store as it was.
C8_EmptySsidRejected ==
    /\ []((/\ pc \notin {"recv", "dispatch"}
           /\ client = "closed"
           /\ IsConfigure(request)
           /\ ~SubmittedSsid(request).raised
           /\ SubmittedSsid(request).value = <<>>)
             => (conn.status = 400 /\ ~conn.joined /\ ~conn.saved /\ try = NoTry))
    /\ [][(/\ pc = "dispatch"
           /\ IsConfigure(request)
           /\ ~SubmittedSsid(request).raised
           /\ SubmittedSsid(request).value = <<>>)
             => (file' = file /\ pending' = pending)]_vars

\* C9: loading never fails: for a missing file and for a malformed one (a
\* line without ';', with more than one ';', or blank) the load raises
\* nothing and yields the empty mapping.
C9_LoadNeverFails ==
    st_pc = "loaded"
       => /\ ~st_out.raised
          /\ (~file.exists \/ Malformed(file)) => st_out.profiles = EmptyMap

\* C10: a mapping of names to secrets without ';' that is written by
\* _write_profiles and read back by _read_profiles comes back identical.
C10_PersistReloadRoundTrip ==
    st_pc = "reloaded" => (~st_out.raised /\ st_out.profiles = st_in)

\* C11: constructing with an ssid longer than 32 characters or a password
\* shorter than 8 fails, and when it fails nothing has been done to the
\* radio: the station was not activated or disconnected and the access
\* point was not operated.
C11_ConstructionFailsBeforeRadio ==
    ctor.pc \in {"raised", "done"}
       => /\ (ctor.pc = "raised") = (ctor.ssid > 32 \/ ctor.password < 8)
          /\ ctor.pc = "raised"
                => \A i \in DOMAIN ctor.radio :
                      ctor.radio[i] \notin {"sta_active", "sta_disconnect",
                                            "ap_active", "ap_config"}

\* every '%' of s starts an escape of two hexadecimal digits
WellFormed(s) ==
    \A i \in DOMAIN s :
       s[i] = PCT => /\ i + 2 <= Len(s)
                     /\ HexDigit(s[i + 1]) >= 0
                     /\ HexDigit(s[i + 2]) >= 0

\* left-to-right decoding of a well-formed string
RECURSIVE RefDecode(_)
RefDecode(s) ==
    IF s = <<>> THEN <<>>
    ELSE IF s[1] = PCT
    THEN <<16 * HexDigit(s[2]) + HexDigit(s[3])>> \o RefDecode(SubSeq(s, 4, Len(s)))
    ELSE <<s[1]>> \o RefDecode(Tail(s))

\* C12: decoding a string whose escapes are all well formed raises nothing
\* and replaces each %XX by the character with that code, the other
\* characters staying as they are and in order; a string without '%' comes
\* back unchanged; "My%20Network" gives "My Network"; "a%2Bb" gives "a+b",
\* also for the ssid field, whose '+' are replaced before decoding.
C12_PercentDecoding ==
    dec.pc = "done"
       => /\ WellFormed(dec.uri)
                => (~dec.raised /\ dec.value = RefDecode(dec.uri))
          /\ (\A i \in DOMAIN dec.uri : dec.uri[i] # PCT)
                => (~dec.raised /\ dec.value = dec.uri)
          /\ dec.uri = RawMyNetwork
                => dec.value = <<77, 121, 32, 78, 101, 116, 119, 111, 114, 107>>
          /\ dec.uri = RawAPlusB
                => (dec.value = <<97, 43, 98>> /\ dec.ssid = <<97, 43, 98>>)

\* "a%2Bb" has been decoded to "a+b"
C12_Witness ==
    /\ dec.pc = "done"
    /\ dec.uri = RawAPlusB
    /\ dec.value = <<97, 43, 98>>

\* C13: whenever the portal is at its status check, or connect() has
\* returned, the client connection it accepted last is closed; so every
\* accept is issued with no client connection open, on every path.
C13_ClientClosedOnEveryPath ==
    /\ [](pc \in {"portal", "idle", "sta_loop"} => client # "open")
    /\ [][accepts' = accepts + 1 => (client # "open" /\ client' = "open")]_vars
    /\ [][(client = "open" /\ pc' \in {"portal", "idle"}) => client' = "closed"]_vars

\* the second client of a session sent a request the portal gave up on,
\* after the first one had been served; it is closed
C13_Witness ==
    /\ accepts = 2
    /\ pc = "idle"
    /\ portal = "aborted"
    /\ client = "closed"

\* C14: when the read loop was left by a timeout before the terminator
\* had been received (nothing, or part of a header, is in the request), no
\* handler runs and nothing is sent, the client is closed, and the portal
\* goes back to its status check with the session still running.
C14_TimeoutBeforeTerminatorIgnored ==
    [][(pc = "dispatch" /\ ~Has(request, "term") /\ pc' # "dispatch")
         => /\ conn'.handler = "none"
            /\ conn'.status = 0
            /\ client' = "closed"
            /\ pc' = "portal"
            /\ portal' = "running"
            /\ result' = result]_vars

\* C15: a request that is not empty and holds no request line matching the
\* pattern ends the portal session: no handler runs, nothing is sent, the
\* client is closed, _web_server returns, and the session that was given
\* up accepts no further client.
C15_UnmatchedRequestEndsSession ==
    /\ [][(pc = "dispatch" /\ request # <<>> /\ ~Has(request, "line")
              /\ pc' # "dispatch")
            => /\ conn'.handler = "none"
               /\ conn'.status = 0
               /\ client' = "closed"
               /\ portal' = "aborted"
               /\ pc' = "idle"
               /\ accepts' = accepts]_vars
    /\ [](portal = "aborted" => (pc = "idle" /\ client = "closed"))
    /\ [][(portal = "aborted" /\ portal' = "aborted") => accepts' = accepts]_vars

\* the first client of a session sent bytes without a request line; the
\* session was given up although it could have accepted another client
C15_Witness ==
    /\ portal = "aborted"
    /\ pc = "idle"
    /\ accepts = 1
    /\ request # <<>>
    /\ ~Has(request, "line")
    /\ conn.handler = "none"
    /\ conn.status = 0

\* C16: the read phase of every accepted connection terminates: each read
\* of the loop either takes bytes the client had still to deliver or
\* leaves the loop (terminator already seen, or timeout), so no read
\* leaves the connection where it was; and the loop is left with exactly
\* one read made after the terminator if it was seen, none otherwise.
C16_ReadPhaseTerminates ==
    /\ pc = "recv" => ENABLED <<Recv>>_vars
    /\ pc = "dispatch" => conn.extra = (IF Has(request, "term") THEN 1 ELSE 0)

\* C17: a configure submission with an empty ssid, and one whose join used
\* up all its polls, are answered with a page, leave the link down with
\* no join pending from them, and leave the portal session running at its
\* status check.
C17_FailedConfigureKeepsPortal ==
    /\ [][(/\ pc = "dispatch"
           /\ pc' # "dispatch"
           /\ IsConfigure(request)
           /\ ~SubmittedSsid(request).raised
           /\ SubmittedSsid(request).value = <<>>)
             => /\ conn'.status # 0
                /\ client' = "closed"
                /\ pc' = "portal"
                /\ portal' = "running"
                /\ staConnected' = staConnected
                /\ pending' = pending]_vars
    /\ [][(/\ pc = "poll"
           /\ caller = "cfg"
           /\ try.outcome = "running"
           /\ try'.outcome = "fail")
             => /\ conn'.status # 0
                /\ client' = "closed"
                /\ pc' = "portal"
                /\ portal' = "running"
                /\ ~staConnected'
                /\ pending' = NoJoin]_vars

\* C18: wifi.dat changes only in the step in which the join of a configure
\* submission is found to have succeeded, and what it then holds is the
\* mapping it held before with the submitted ssid set to the submitted
\* password, every other entry as it was; no other step of connect() or
\* of the portal changes it.
C18_StoreWrittenOnlyBySuccessfulConfigure ==
    [][file' # file
         => /\ pc = "poll"
            /\ caller = "cfg"
            /\ try.outcome = "running"
            /\ try'.outcome = "ok"
            /\ ~_read_profiles(file').raised
            /\ _read_profiles(file').profiles
                  = Put(_read_profiles(file).profiles, cur.ssid, cur.password)]_vars

\* C19: within one connect() cycle no network name is joined twice by the
\* station phase, however often it appears in the scan result.
C19_DuplicateScanNamesCollapsed ==
    \A i, j \in DOMAIN staJoins :
       staJoins[i].ssid = staJoins[j].ssid => i = j

\* C20: a call of _wifi_connect ends with True or False whatever the radio
\* does, the join request failing with an error included; so connect()
\* never ends with an error once it has scanned, and a station phase that
\* ended without a connection has gone through every scan entry.
C20_NoErrorEscapesTryConnect ==
    /\ try.outcome \in {"none", "running", "ok", "fail"}
    /\ (pc = "idle" /\ ops.scan) => result = "returned"
    /\ (pc = "idle" /\ ops.scan /\ caller = "sta" /\ try.outcome # "ok")
          => scanIdx = Len(scanned)

====
